---- MODULE Spec2Model ----
(***************************************************************************)
(* Model of the ai-excel-demo batch job: processor.py (reply parsing, the  *)
(* LLM retry loop, process_excel) and app.py (tasks, background thread,    *)
(* log/status/download polling).                                           *)
(*                                                                         *)
(* Texts are sequences of tokens.  A token is one character, except FENCE  *)
(* (three backticks) and ESCQ (a backslash followed by a double quote).    *)
(* The Chinese header and log texts of the source are written with ASCII   *)
(* names.                                                                  *)
(***************************************************************************)
EXTENDS Integers, Sequences, FiniteSets, TLC

VARIABLES
    \* _parse_llm_list_of_lists called on its own
    raw_text, parse_pc, parse_out,
    \* analyze_data_with_llm: the environment (API key, what the LLM service
    \* can answer), the call's locals and its outcome
    has_key, reply_env, llm_pc, retries, attempt, last_err, llm_out,
    \* history: requests sent by the current call, and each attempt's outcome
    requests, llm_trace,
    \* process_excel: the environment (MAX_SHEETS, AI_RETRIES, the uploaded files), the
    \* locals of the call, the workbook, the log lines handed to log_fn, the
    \* output file, and how the call ended
    max_sheets, default_retries, param_file, report_file,
    proc_pc, shifou, canshu_list, numbers_list, letters_list, sheet_names,
    idx, all_data, row_k, hangshu, ws, plog, pending, out_file, proc_out,
    \* history: the complete rows appended, what each loop iteration did, the
    \* step that raised, and the number of times the save step ran
    written, hist, fail_cause, save_attempts,
    \* app.py: the two dictionaries, the output files, each background thread
    \* (its position, its pending exception), the start handler and the status
    \* handlers in flight
    TASK_LOGS, TASK_STATUS, files, thr, thr_exc, starting, polls,
    \* history: how run_task ended, the ids a status response has called done,
    \* the latest status and download responses, the latest log response per
    \* id, and the number of requests still to come
    run_result, said_done, status_resp, dl_resp, log_resps, polls_left

parseVars == <<raw_text, parse_pc, parse_out>>
llmEnv == <<has_key, reply_env>>
llmVars == <<llm_pc, retries, attempt, last_err, llm_out, requests, llm_trace>>
procEnv == <<max_sheets, default_retries, param_file, report_file>>
procLocals == <<shifou, canshu_list, numbers_list, letters_list, sheet_names>>
procVars == <<proc_pc, procLocals, idx, all_data, row_k, hangshu, ws, plog,
              pending, out_file, proc_out, written, hist, fail_cause, save_attempts>>
appVars == <<TASK_LOGS, TASK_STATUS, files, thr, thr_exc, starting, polls,
             run_result, said_done, status_resp, dl_resp, log_resps, polls_left>>
nonAppVars == <<parseVars, llmEnv, llmVars, procEnv, procVars>>
vars == <<parseVars, llmEnv, llmVars, procEnv, procVars, appVars>>

(***************************************************************************)
(* Bounds of the model.                                                    *)
(***************************************************************************)
MaxLen == 5
MaxRetries == 3
MaxParamRows == 2
MaxPolls == 2
MaxLivePolls == 1

(***************************************************************************)
(* Texts and values.                                                       *)
(***************************************************************************)
LB == "["
RB == "]"
CM == ","
ONE == "1"
\* the double quote character
Q == "dq"
\* a backslash followed by a double quote
ESCQ == "bsdq"
SP == " "
\* three backticks
FENCE == "fence"
Tok == {LB, RB, CM, ONE, Q, ESCQ, SP, FENCE}

\* None, where a text is expected.
NoneText == <<"None">>

RECURSIVE SeqsUpTo(_)
SeqsUpTo(n) ==
    IF n = 0 THEN {<<>>}
    ELSE LET prev == SeqsUpTo(n - 1)
         IN prev \cup {Append(s, t) : s \in {p \in prev : Len(p) = n - 1}, t \in Tok}

\* Python values a reply can denote: int, str, list.
Num(src) == [t |-> "num", src |-> src, items |-> <<>>]
Str(src) == [t |-> "str", src |-> src, items |-> <<>>]
List(items) == [t |-> "list", src |-> <<>>, items |-> items]
NoVal == [t |-> "none", src |-> <<>>, items |-> <<>>]

\* isinstance(obj, list)
IsList(v) == v.t = "list"

\* A list whose every element is itself a list.
IsListOfLists(v) == IsList(v) /\ \A k \in 1..Len(v.items) : IsList(v.items[k])

(***************************************************************************)
(* str.strip, str.startswith and str.replace on token texts                *)
(***************************************************************************)
RECURSIVE LStrip(_, _)
LStrip(s, c) == IF s # <<>> /\ Head(s) = c THEN LStrip(Tail(s), c) ELSE s

RECURSIVE RStrip(_, _)
RStrip(s, c) ==
    IF s # <<>> /\ s[Len(s)] = c THEN RStrip(SubSeq(s, 1, Len(s) - 1), c) ELSE s

Strip(s, c) == RStrip(LStrip(s, c), c)

StartsWithFence(s) == s # <<>> /\ Head(s) = FENCE

\* str.replace of ESCQ by Q
UnescapeQuotes(s) == [k \in 1..Len(s) |-> IF s[k] = ESCQ THEN Q ELSE s[k]]

\* str.replace of Q Q by Q: left to right, occurrences do not overlap.
RECURSIVE CollapseQuotes(_)
CollapseQuotes(s) ==
    IF Len(s) < 2 THEN s
    ELSE IF s[1] = Q /\ s[2] = Q THEN <<Q>> \o CollapseQuotes(SubSeq(s, 3, Len(s)))
    ELSE <<s[1]>> \o CollapseQuotes(Tail(s))

(***************************************************************************)
(* json.loads and ast.literal_eval on token texts.  py = TRUE is the       *)
(* Python literal grammar: a trailing comma in a list and adjacent string  *)
(* literals (concatenated) are accepted; JSON accepts neither.             *)
(***************************************************************************)
RECURSIVE SkipWs(_, _)
SkipWs(s, i) == IF i <= Len(s) /\ s[i] = SP THEN SkipWs(s, i + 1) ELSE i

RECURSIVE NumEnd(_, _)
NumEnd(s, i) == IF i <= Len(s) /\ s[i] = ONE THEN NumEnd(s, i + 1) ELSE i

\* Index of the quote closing a string whose content starts at i; 0 if none.
RECURSIVE StrEnd(_, _)
StrEnd(s, i) ==
    IF i > Len(s) THEN 0
    ELSE IF s[i] = Q THEN i
    ELSE StrEnd(s, i + 1)

\* The characters of the content of a string literal: ESCQ denotes Q.
StrContent(s) == UnescapeQuotes(s)

ParseFail == [ok |-> FALSE, val |-> NoVal, next |-> 0]
ParseOk(v, n) == [ok |-> TRUE, val |-> v, next |-> n]

RECURSIVE ParseString(_, _, _)
ParseString(s, i, py) ==
    LET e == StrEnd(s, i + 1)
    IN IF e = 0 THEN ParseFail
       ELSE LET here == StrContent(SubSeq(s, i + 1, e - 1))
                k == SkipWs(s, e + 1)
            IN IF py /\ k <= Len(s) /\ s[k] = Q
               THEN LET more == ParseString(s, k, py)
                    IN IF more.ok
                       THEN ParseOk(Str(here \o more.val.src), more.next)
                       ELSE ParseFail
               ELSE ParseOk(Str(here), e + 1)

RECURSIVE ParseValue(_, _, _)
RECURSIVE ParseItems(_, _, _, _)
ParseValue(s, i0, py) ==
    LET i == SkipWs(s, i0)
    IN IF i > Len(s) THEN ParseFail
       ELSE IF s[i] = ONE
            THEN ParseOk(Num(SubSeq(s, i, NumEnd(s, i) - 1)), NumEnd(s, i))
       ELSE IF s[i] = Q THEN ParseString(s, i, py)
       ELSE IF s[i] = LB
            THEN LET j == SkipWs(s, i + 1)
                 IN IF j <= Len(s) /\ s[j] = RB
                    THEN ParseOk(List(<<>>), j + 1)
                    ELSE ParseItems(s, i + 1, py, <<>>)
       ELSE ParseFail

ParseItems(s, i, py, acc) ==
    LET r == ParseValue(s, i, py)
    IN IF ~r.ok THEN ParseFail
       ELSE LET j == SkipWs(s, r.next)
                acc2 == Append(acc, r.val)
            IN IF j > Len(s) THEN ParseFail
               ELSE IF s[j] = RB THEN ParseOk(List(acc2), j + 1)
               ELSE IF s[j] = CM
                    THEN LET k == SkipWs(s, j + 1)
                         IN IF py /\ k <= Len(s) /\ s[k] = RB
                            THEN ParseOk(List(acc2), k + 1)
                            ELSE ParseItems(s, j + 1, py, acc2)
               ELSE ParseFail

\* The whole text is one value: [ok, val]; ok = FALSE is "raises".
Loads(s, py) ==
    LET r == ParseValue(s, 1, py)
    IN IF r.ok /\ SkipWs(s, r.next) > Len(s) THEN r ELSE ParseFail

json_loads(s) == Loads(s, FALSE)

\* Only list results matter to the caller: a tuple, a scalar and an error all
\* fall through to the next attempt.
ast_literal_eval(s) == Loads(s, TRUE)

(***************************************************************************)
(* _parse_llm_list_of_lists                                               *)
(***************************************************************************)
Returned(v, via) == [raised |-> "", val |-> v, via |-> via]
Raised(e) == [raised |-> e, val |-> NoVal, via |-> ""]

\* text after strip() and the removal of a fence wrapping
CleanedText(raw) ==
    LET text == Strip(raw, SP)
    IN IF StartsWithFence(text) THEN Strip(Strip(text, FENCE), SP) ELSE text

_parse_llm_list_of_lists(raw) ==
    IF raw = NoneText THEN Raised("ValueError")
    ELSE LET text == CleanedText(raw)
             j == json_loads(text)
             p == ast_literal_eval(text)
             c == json_loads(CollapseQuotes(UnescapeQuotes(text)))
         IN IF j.ok /\ IsList(j.val) THEN Returned(j.val, "json")
            ELSE IF p.ok /\ IsList(p.val) THEN Returned(p.val, "literal")
            ELSE IF c.ok /\ IsList(c.val) THEN Returned(c.val, "unescaped")
            ELSE Raised("ValueError")

(***************************************************************************)
(* The parser called on its own.                                           *)
(***************************************************************************)
ParseCall ==
    /\ parse_pc = "call"
    /\ parse_out' = _parse_llm_list_of_lists(raw_text)
    /\ parse_pc' = "done"
    /\ UNCHANGED <<appVars, raw_text, llmEnv, llmVars, procEnv, procVars>>

(***************************************************************************)
(* analyze_data_with_llm.  One request to the LLM service either raises    *)
(* (a timeout, or a completion with no choices) or yields the content of   *)
(* the first choice: a text, or None.                                      *)
(***************************************************************************)
Row1 == <<LB, ONE, RB>>
Row2 == <<LB, ONE, CM, ONE, ONE, RB>>
\* a row of 11 values, the last one 11
Row11 == <<LB, ONE, CM, ONE, CM, ONE, CM, ONE, CM, ONE, CM, ONE, CM, ONE, CM,
           ONE, CM, ONE, CM, ONE, CM, ONE, ONE, RB>>
\* a row whose second value is itself a list
RowNested == <<LB, ONE, CM, LB, ONE, RB, RB>>

\* a fenced reply of two rows, the second of 11 values
GoodRows == <<FENCE, LB>> \o Row1 \o <<CM>> \o Row11 \o <<RB, FENCE>>
NestedRows == <<LB>> \o Row2 \o <<CM, SP>> \o RowNested \o <<RB>>
Scalars == <<LB, ONE, CM, ONE, RB>>
NotAList == <<ONE>>
EmptyList == <<LB, RB>>

\* What the service can answer: contents, None among them.
AllReplies == {NoneText, NotAList, Scalars, GoodRows, NestedRows, EmptyList}
ProcReplies == {NoneText, Scalars, GoodRows, NestedRows}
RangeReplies == {GoodRows}

\* Exceptions of the request itself.
RequestErrors == {"APITimeoutError"}

\* One attempt of the loop body: the request, then the parse of its content.
AttemptResult(outcome) ==
    IF outcome.err # "" THEN Raised(outcome.err)
    ELSE _parse_llm_list_of_lists(outcome.content)

RequestOutcomes ==
    {[err |-> e, content |-> <<>>] : e \in RequestErrors}
        \cup {[err |-> "", content |-> c] : c \in reply_env}

\* api_key is None and the environment variable is unset, or the client is made
LLMEnter ==
    /\ llm_pc = "call"
    /\ IF ~has_key
       THEN /\ llm_pc' = "raised"
            /\ llm_out' = Raised("RuntimeError")
       ELSE /\ llm_pc' = "loop"
            /\ UNCHANGED llm_out
    /\ attempt' = 1
    /\ UNCHANGED <<appVars, parseVars, llmEnv, retries, last_err, requests, llm_trace, procEnv, procVars>>

AfterFailedAttemptNoRetry(r) ==
    /\ last_err' = r.raised
    /\ llm_pc' = "raised" /\ llm_out' = r

\* the last attempt re-raises, an earlier one goes round the loop
AfterFailedAttempt(r) ==
    /\ last_err' = r.raised
    /\ IF attempt = retries
       THEN llm_pc' = "raised" /\ llm_out' = r
       ELSE llm_pc' = "loop" /\ UNCHANGED llm_out

\* for attempt in range(1, retries + 1): try ... except
LLMAttempt ==
    /\ llm_pc = "loop"
    /\ attempt <= retries
    /\ \E outcome \in RequestOutcomes :
        LET r == AttemptResult(outcome)
        IN /\ requests' = requests + 1
           /\ llm_trace' = Append(llm_trace, [outcome |-> outcome, result |-> r])
           /\ IF r.raised = ""
              THEN /\ llm_pc' = "returned"
                   /\ llm_out' = r
                   /\ UNCHANGED last_err
              ELSE AfterFailedAttempt(r)
    /\ attempt' = attempt + 1
    /\ UNCHANGED <<appVars, parseVars, llmEnv, retries, procEnv, procVars>>

\* the loop ran no iteration: raise RuntimeError after it
LLMExhausted ==
    /\ llm_pc = "loop"
    /\ attempt > retries
    /\ llm_pc' = "raised"
    /\ llm_out' = Raised("RuntimeError")
    /\ UNCHANGED <<appVars, parseVars, llmEnv, retries, attempt, last_err, requests, llm_trace,
                   procEnv, procVars>>

(***************************************************************************)
(* process_excel: cell texts of the parameter table, the workbook.         *)
(***************************************************************************)
DEFAULT_RETRIES == 2

\* pd.isna(item): an empty cell
NaNCell == <<"NaN">>

DigitChars == <<"0", "1", "2", "3", "4", "5", "6", "7", "8", "9">>
IsDigit(c) == \E k \in 1..10 : DigitChars[k] = c
DigitVal(c) == (CHOOSE k \in 1..10 : DigitChars[k] = c) - 1
IsLetter(c) == c \in {"A", "B", "C", "D", "a", "b"}

\* ''.join(re.findall(r'\d+', item_str)), ''.join(re.findall(r'[a-zA-Z]+', item_str))
Digits(item) == IF item = NaNCell THEN <<>> ELSE SelectSeq(item, IsDigit)
Letters(item) == IF item = NaNCell THEN <<>> ELSE SelectSeq(item, IsLetter)

\* int(text) of a digit text; int('') raises ValueError
RECURSIVE ToInt(_)
ToInt(d) == IF d = <<>> THEN 0 ELSE 10 * ToInt(SubSeq(d, 1, Len(d) - 1)) + DigitVal(d[Len(d)])
IntRaises(d) == d = <<>>

\* number = int(numbers_list[i][1]) - int(numbers_list[i][0]) - 4
RowCount(nums) == ToInt(nums[2]) - ToInt(nums[1]) - 4

\* range_str = f"{letter1}:{letter2}"
RangeStr(lets) == lets[1] \o <<":">> \o lets[2]

Headers == <<"unit_name", "day_target", "day_dev", "day_rate", "month_target",
             "month_dev", "month_rate", "score", "county", "product", "rank", "remark">>

\* all_headers.index(product) + 1
product_col_index == CHOOSE c \in 1..Len(Headers) : Headers[c] = "product"

SetCell(w, r, c, v) ==
    [p \in DOMAIN w \cup {<<r, c>>} |-> IF p = <<r, c>> THEN v ELSE w[p]]

\* Workbook() with the header row written
NewSheet == [p \in {<<1, c>> : c \in 1..Len(Headers)} |-> Str(<<Headers[p[2]]>>)]

\* enumerate(row_data, 1): the values of a list, the characters of a str
RowValues(row_data) ==
    IF row_data.t = "list" THEN row_data.items
    ELSE [k \in 1..Len(row_data.src) |-> Str(<<row_data.src[k]>>)]

\* An int is not iterable (TypeError); a list is no cell value (ValueError).
FirstBad(vals) ==
    IF \E k \in 1..Len(vals) : vals[k].t = "list"
    THEN CHOOSE k \in 1..Len(vals) : vals[k].t = "list" /\ \A m \in 1..(k - 1) : vals[m].t # "list"
    ELSE 0

RowError(row_data) ==
    IF row_data.t = "num" THEN "TypeError"
    ELSE IF FirstBad(RowValues(row_data)) # 0 THEN "ValueError"
    ELSE ""

\* ws1.cell(row=hangshu, column=col_idx, value=value) for the first n values
RECURSIVE WriteValues(_, _, _, _)
WriteValues(w, r, vals, n) ==
    IF n = 0 THEN w ELSE SetCell(WriteValues(w, r, vals, n - 1), r, n, vals[n])

WriteRowCellsProductFirst(w, r, row_data, sheet) ==
    LET vals == RowValues(row_data)
    IN WriteValues(SetCell(w, r, product_col_index, Str(<<sheet>>)), r, vals, Len(vals))

\* the values, then the product column
WriteRowCells(w, r, row_data, sheet) ==
    LET vals == RowValues(row_data)
    IN SetCell(WriteValues(w, r, vals, Len(vals)), r, product_col_index, Str(<<sheet>>))

\* the cells written before the value that raises
WritePartialRow(w, r, row_data) ==
    IF row_data.t = "num" THEN w
    ELSE LET vals == RowValues(row_data)
         IN WriteValues(w, r, vals, FirstBad(vals) - 1)

Log(msg, arg) == [msg |-> msg, arg |-> arg]

SeqContains(q, x) == \E k \in 1..Len(q) : q[k] = x

(***************************************************************************)
(* process_excel: the steps of the call.                                   *)
(***************************************************************************)
\* an exception leaves the try body for the finally block
RaiseFrom(cause, exc) ==
    /\ pending' = exc
    /\ fail_cause' = cause
    /\ proc_pc' = "finally"

HistEntry(kind, sheet, skip, bounded, n, cols) ==
    [kind |-> kind, sheet |-> sheet, skiprows |-> skip, bounded |-> bounded,
     nrows |-> n, usecols |-> cols, requests |-> 0, llm_err |-> "", rows |-> 0]

\* log, pd.read_excel(param_path), the flag cell, the rows of simple mode
ReadParams ==
    /\ proc_pc = "read_params"
    /\ plog' = Append(plog, Log("read_params", ""))
    /\ IF ~param_file.ok
       THEN /\ RaiseFrom("param_read", "ValueError")
            /\ UNCHANGED procLocals
       ELSE /\ shifou' = param_file.flag
            /\ canshu_list' = IF param_file.flag = 0 THEN param_file.rows ELSE <<>>
            /\ numbers_list' =
                   IF param_file.flag = 0
                   THEN [k \in 1..Len(param_file.rows) |->
                            <<Digits(param_file.rows[k][2]), Digits(param_file.rows[k][3])>>]
                   ELSE <<>>
            /\ letters_list' =
                   IF param_file.flag = 0
                   THEN [k \in 1..Len(param_file.rows) |->
                            <<Letters(param_file.rows[k][2]), Letters(param_file.rows[k][3])>>]
                   ELSE <<>>
            /\ proc_pc' = "open_report"
            /\ UNCHANGED <<sheet_names, pending, fail_cause>>
    /\ UNCHANGED <<appVars, parseVars, llmEnv, llmVars, procEnv, idx, all_data, row_k, hangshu,
                   ws, out_file, proc_out, written, hist, save_attempts>>

\* pd.ExcelFile(report_path), its sheet names, the log of their number
OpenReport ==
    /\ proc_pc = "open_report"
    /\ IF ~report_file.ok
       THEN /\ RaiseFrom("report_open", "ValueError")
            /\ UNCHANGED <<canshu_list, sheet_names, plog>>
       ELSE /\ sheet_names' = report_file.sheets
            /\ canshu_list' =
                   IF shifou = 0 THEN canshu_list
                   ELSE [k \in 1..Len(report_file.sheets) |-> <<report_file.sheets[k]>>]
            /\ plog' = Append(plog, Log("report_sheets", ToString(Len(report_file.sheets))))
            /\ proc_pc' = "loop"
            /\ UNCHANGED <<pending, fail_cause>>
    /\ UNCHANGED <<appVars, parseVars, llmEnv, llmVars, procEnv, shifou, numbers_list, letters_list,
                   idx, all_data, row_k, hangshu, ws, out_file, proc_out, written, hist,
                   save_attempts>>

\* for i in range(len(canshu_list)): idx is i + 1
LoopExit ==
    /\ proc_pc = "loop"
    /\ idx > Len(canshu_list)
    /\ proc_pc' = "finally"
    /\ UNCHANGED <<appVars, parseVars, llmEnv, llmVars, procEnv, procLocals, idx, all_data, row_k,
                   hangshu, ws, plog, pending, out_file, proc_out, written, hist,
                   fail_cause, save_attempts>>

OverMaxSheets == max_sheets > 0 /\ idx - 1 >= max_sheets

LoopBreak ==
    /\ proc_pc = "loop"
    /\ idx <= Len(canshu_list)
    /\ OverMaxSheets
    /\ plog' = Append(plog, Log("max_sheets_stop", ToString(max_sheets)))
    /\ proc_pc' = "finally"
    /\ UNCHANGED <<appVars, parseVars, llmEnv, llmVars, procEnv, procLocals, idx, all_data, row_k,
                   hangshu, ws, pending, out_file, proc_out, written, hist, fail_cause,
                   save_attempts>>

InLoop == proc_pc = "loop" /\ idx <= Len(canshu_list) /\ ~OverMaxSheets

target_sheet == canshu_list[idx][1]

SkipMissing ==
    /\ InLoop
    /\ ~SeqContains(sheet_names, target_sheet)
    /\ plog' = Append(plog, Log("skip_missing_sheet", target_sheet))
    /\ hist' = Append(hist, HistEntry("missing", target_sheet, 0, FALSE, 0, <<>>))
    /\ idx' = idx + 1
    /\ UNCHANGED <<appVars, parseVars, llmEnv, llmVars, procEnv, proc_pc, procLocals, all_data,
                   row_k, hangshu, ws, pending, out_file, proc_out, written, fail_cause,
                   save_attempts>>

\* int(...) raises in the try of lines 221-228
RangeRaises == shifou = 0 /\ (IntRaises(numbers_list[idx][2]) \/ IntRaises(numbers_list[idx][1]))

SkipBadRange ==
    /\ InLoop
    /\ SeqContains(sheet_names, target_sheet)
    /\ RangeRaises
    /\ plog' = plog \o <<Log("process_sheet", target_sheet), Log("range_failed", "ValueError")>>
    /\ hist' = Append(hist, HistEntry("bad_range", target_sheet, 0, FALSE, 0, <<>>))
    /\ idx' = idx + 1
    /\ UNCHANGED <<appVars, parseVars, llmEnv, llmVars, procEnv, proc_pc, procLocals, all_data,
                   row_k, hangshu, ws, pending, out_file, proc_out, written, fail_cause,
                   save_attempts>>

ReadArgsSwapped ==
    IF shifou = 0
    THEN HistEntry("processed", target_sheet, 4, TRUE,
                   ToInt(numbers_list[idx][1]) - ToInt(numbers_list[idx][2]) - 4,
                   RangeStr(letters_list[idx]))
    ELSE HistEntry("processed", target_sheet, 1, FALSE, 0, <<>>)

\* the arguments of _read_excel_sheet
ReadArgs ==
    IF shifou = 0
    THEN HistEntry("processed", target_sheet, 4, TRUE, RowCount(numbers_list[idx]),
                   RangeStr(letters_list[idx]))
    ELSE HistEntry("processed", target_sheet, 1, FALSE, 0, <<>>)

\* log, the range of simple mode, the read, log, the call of analyze_data_with_llm
ReadSheet ==
    /\ InLoop
    /\ SeqContains(sheet_names, target_sheet)
    /\ ~RangeRaises
    /\ \E read_ok \in BOOLEAN :
        IF ~read_ok \/ (ReadArgs.bounded /\ ReadArgs.nrows < 0)
        THEN /\ plog' = Append(plog, Log("process_sheet", target_sheet))
             /\ hist' = Append(hist, [ReadArgs EXCEPT !.kind = "read_failed"])
             /\ RaiseFrom("sheet_read", "ValueError")
             /\ UNCHANGED llmVars
        ELSE /\ plog' = plog \o <<Log("process_sheet", target_sheet), Log("call_ai", "")>>
             /\ hist' = Append(hist, ReadArgs)
             /\ proc_pc' = "llm"
             /\ llm_pc' = "call"
             /\ retries' = default_retries
             /\ attempt' = 0 /\ requests' = 0 /\ llm_trace' = <<>>
             /\ last_err' = "" /\ llm_out' = Raised("")
             /\ UNCHANGED <<pending, fail_cause>>
    /\ UNCHANGED <<appVars, parseVars, llmEnv, procEnv, procLocals, idx, all_data, row_k, hangshu,
                   ws, out_file, proc_out, written, save_attempts>>

ResetLLM ==
    /\ llm_pc' = "idle" /\ retries' = 0 /\ attempt' = 0 /\ last_err' = ""
    /\ llm_out' = Raised("") /\ requests' = 0 /\ llm_trace' = <<>>

\* except Exception as e: log, all_data = []
OnLLMRaisedPropagate ==
    /\ RaiseFrom("llm", llm_out.raised)
    /\ UNCHANGED <<plog, all_data, row_k>>

OnLLMRaised ==
    /\ plog' = Append(plog, Log("ai_failed", llm_out.raised))
    /\ all_data' = <<>>
    /\ row_k' = 1
    /\ proc_pc' = "write"
    /\ UNCHANGED <<pending, fail_cause>>

\* all_data = analyze_data_with_llm(df) has ended: log, or the except clause
AfterLLM ==
    /\ proc_pc = "llm"
    /\ llm_pc \in {"returned", "raised"}
    /\ IF llm_pc = "returned"
       THEN /\ plog' = Append(plog, Log("ai_ok", ToString(Len(llm_out.val.items))))
            /\ all_data' = llm_out.val.items
            /\ row_k' = 1
            /\ proc_pc' = "write"
            /\ UNCHANGED <<pending, fail_cause>>
       ELSE OnLLMRaised
    /\ hist' = [hist EXCEPT ![Len(hist)].requests = requests,
                            ![Len(hist)].llm_err = IF llm_pc = "raised" THEN llm_out.raised ELSE ""]
    /\ ResetLLM
    /\ UNCHANGED <<appVars, parseVars, llmEnv, procEnv, procLocals, idx, hangshu, ws, out_file,
                   proc_out, written, save_attempts>>

\* the cells of one row: values, product column, hangshu += 1
AppendRow(row_data) ==
    /\ ws' = WriteRowCells(ws, hangshu, row_data, target_sheet)
    /\ hangshu' = hangshu + 1

\* one iteration of for row_data in all_data
WriteRow ==
    /\ proc_pc = "write"
    /\ row_k <= Len(all_data)
    /\ LET row_data == all_data[row_k]
       IN IF RowError(row_data) # ""
          THEN /\ ws' = WritePartialRow(ws, hangshu, row_data)
               /\ RaiseFrom("row_write", RowError(row_data))
               /\ UNCHANGED <<hangshu, row_k, written, hist>>
          ELSE /\ AppendRow(row_data)
               /\ row_k' = row_k + 1
               /\ written' = Append(written, [i |-> idx, sheet |-> target_sheet,
                                              k |-> row_k, row |-> RowValues(row_data)])
               /\ hist' = [hist EXCEPT ![Len(hist)].rows = @ + 1]
               /\ UNCHANGED <<proc_pc, pending, fail_cause>>
    /\ UNCHANGED <<appVars, parseVars, llmEnv, llmVars, procEnv, procLocals, idx, all_data, plog,
                   out_file, proc_out, save_attempts>>

\* the rows of this sheet are written: next i
RowsDone ==
    /\ proc_pc = "write"
    /\ row_k > Len(all_data)
    /\ idx' = idx + 1
    /\ proc_pc' = "loop"
    /\ UNCHANGED <<appVars, parseVars, llmEnv, llmVars, procEnv, procLocals, all_data, row_k,
                   hangshu, ws, plog, pending, out_file, proc_out, written, hist,
                   fail_cause, save_attempts>>

AbsentFile == [state |-> "absent", ws |-> NewSheet]

\* finally: log, os.makedirs, wb.save(out_path), log; then the call returns or
\* the pending exception propagates.  A failing save raises instead; it may
\* have created the file already.
SaveRuns ==
    /\ save_attempts' = save_attempts + 1
    /\ \E outcome \in {"saved", "failed_no_file", "failed_partial_file"} :
        IF outcome = "saved"
        THEN /\ out_file' = [state |-> "complete", ws |-> ws]
             /\ plog' = plog \o <<Log("writing", ""), Log("write_done", "")>>
             /\ proc_out' = IF pending = "" THEN "returned" ELSE pending
             /\ UNCHANGED <<pending, fail_cause>>
        ELSE /\ out_file' = IF outcome = "failed_no_file" THEN AbsentFile
                            ELSE [state |-> "partial", ws |-> NewSheet]
             /\ plog' = Append(plog, Log("writing", ""))
             /\ pending' = "OSError"
             /\ fail_cause' = "save"
             /\ proc_out' = "OSError"

SaveStepOnlyOnSuccess ==
    IF pending = "" THEN SaveRuns
    ELSE /\ proc_out' = pending
         /\ UNCHANGED <<save_attempts, out_file, plog, pending, fail_cause>>

SaveStep == SaveRuns

Finally ==
    /\ proc_pc = "finally"
    /\ SaveStep
    /\ proc_pc' = "done"
    /\ UNCHANGED <<appVars, parseVars, llmEnv, llmVars, procEnv, procLocals, idx, all_data, row_k,
                   hangshu, ws, written, hist>>

(***************************************************************************)
(* app.py.  Two jobs can be started; their ids are 1 and 2 in the order    *)
(* start hands them out (uuid4 gives a fresh id each time).  Id 0 is never *)
(* handed out.  One status request is in flight at a time.                 *)
(***************************************************************************)
TaskIds == {1, 2}
AnyId == TaskIds \cup {0}
Pollers == {1}

Status(state, error) == [state |-> state, error |-> error]

\* the task id a log line is written under
LogKeyShared(task_id) == 1
LogKey(task_id) == task_id

\* TASK_LOGS.setdefault(task_id, []).append(line) on the dictionary logs
add_log(logs, task_id, msg) ==
    LET key == LogKey(task_id)
        line == [for |-> task_id, msg |-> msg]
    IN IF key \in DOMAIN logs
       THEN [logs EXCEPT ![key] = Append(@, line)]
       ELSE [k \in DOMAIN logs \cup {key} |-> IF k = key THEN <<line>> ELSE logs[k]]

RECURSIVE add_logs(_, _, _)
add_logs(logs, task_id, msgs) ==
    IF msgs = <<>> THEN logs
    ELSE add_logs(add_log(logs, task_id, Head(msgs)), task_id, Tail(msgs))

SetKey(d, key, v) == [k \in DOMAIN d \cup {key} |-> IF k = key THEN v ELSE d[k]]

\* os.path.exists(out_path)
Exists(task_id) == task_id \in TaskIds /\ files[task_id] # "absent"

\* start, lines 57-70: the new id, both dictionaries, four log lines, the uploads
StartRegister ==
    /\ starting = 0
    /\ Cardinality(DOMAIN TASK_STATUS) < Cardinality(TaskIds)
    /\ LET task_id == Cardinality(DOMAIN TASK_STATUS) + 1
       IN /\ TASK_LOGS' = add_logs(SetKey(TASK_LOGS, task_id, <<>>), task_id,
                                   <<"recv_param", "recv_report", "saving_uploads">>)
          /\ TASK_STATUS' = SetKey(TASK_STATUS, task_id, Status("running", ""))
          /\ starting' = task_id
    /\ UNCHANGED <<nonAppVars, files, thr, thr_exc, polls, run_result,
                   said_done, status_resp, dl_resp, log_resps, polls_left>>

\* start, lines 67-75: the uploads are saved, a log line, the thread is started
StartThread ==
    /\ starting # 0
    /\ TASK_LOGS' = add_log(TASK_LOGS, starting, "uploads_saved")
    /\ thr' = [thr EXCEPT ![starting] = "begin"]
    /\ starting' = 0
    /\ UNCHANGED <<nonAppVars, TASK_STATUS, files, thr_exc, polls, run_result,
                   said_done, status_resp, dl_resp, log_resps, polls_left>>

\* start, lines 67-68: saving an upload raises; the handler ends with no thread
StartSaveFails ==
    /\ starting # 0
    /\ starting' = 0
    /\ UNCHANGED <<nonAppVars, TASK_LOGS, TASK_STATUS, files, thr, thr_exc,
                   polls, run_result, said_done, status_resp, dl_resp, log_resps, polls_left>>

ThreadFrame ==
    UNCHANGED <<nonAppVars, starting, polls, said_done, status_resp, dl_resp, log_resps,
                polls_left>>

\* run_task line 31, and process_excel up to its first log line
RunBegin(t) ==
    /\ thr[t] = "begin"
    /\ TASK_LOGS' = add_logs(TASK_LOGS, t, <<"task_begin", "read_params">>)
    /\ thr' = [thr EXCEPT ![t] = "body"]
    /\ UNCHANGED <<TASK_STATUS, files, thr_exc, run_result>>
    /\ ThreadFrame

\* the try body ends, normally or with an exception; finally logs its first line
ProcBodyEnd(t) ==
    /\ thr[t] = "body"
    /\ \E exc \in {"", "ValueError"} : thr_exc' = [thr_exc EXCEPT ![t] = exc]
    /\ TASK_LOGS' = add_log(TASK_LOGS, t, "writing")
    /\ thr' = [thr EXCEPT ![t] = "saving"]
    /\ UNCHANGED <<TASK_STATUS, files, run_result>>
    /\ ThreadFrame

\* os.makedirs and the opening of out_path by wb.save
ProcSaveOpen(t) ==
    /\ thr[t] = "saving"
    /\ \E ok \in BOOLEAN :
        IF ok
        THEN /\ files' = [files EXCEPT ![t] = "partial"]
             /\ thr' = [thr EXCEPT ![t] = "writing_file"]
             /\ UNCHANGED thr_exc
        ELSE /\ thr_exc' = [thr_exc EXCEPT ![t] = "OSError"]
             /\ thr' = [thr EXCEPT ![t] = "raised"]
             /\ UNCHANGED files
    /\ UNCHANGED <<TASK_LOGS, TASK_STATUS, run_result>>
    /\ ThreadFrame

\* wb.save writes the file and closes it, the last log line of finally; then
\* process_excel returns or the pending exception propagates
ProcSaveClose(t) ==
    /\ thr[t] = "writing_file"
    /\ \E ok \in BOOLEAN :
        IF ok
        THEN /\ files' = [files EXCEPT ![t] = "complete"]
             /\ TASK_LOGS' = add_log(TASK_LOGS, t, "write_done")
             /\ thr' = [thr EXCEPT ![t] = IF thr_exc[t] = "" THEN "returned" ELSE "raised"]
             /\ UNCHANGED thr_exc
        ELSE /\ thr_exc' = [thr_exc EXCEPT ![t] = "OSError"]
             /\ thr' = [thr EXCEPT ![t] = "raised"]
             /\ UNCHANGED <<files, TASK_LOGS>>
    /\ UNCHANGED <<TASK_STATUS, run_result>>
    /\ ThreadFrame

\* run_task lines 33-34
RunDone(t) ==
    /\ thr[t] = "returned"
    /\ TASK_LOGS' = add_log(TASK_LOGS, t, "task_done")
    /\ TASK_STATUS' = [TASK_STATUS EXCEPT ![t] = Status("done", "")]
    /\ run_result' = [run_result EXCEPT ![t] = "done"]
    /\ thr' = [thr EXCEPT ![t] = "end"]
    /\ UNCHANGED <<files, thr_exc>>
    /\ ThreadFrame

\* run_task line 36
RunLogFailure(t) ==
    /\ thr[t] = "raised"
    /\ TASK_LOGS' = add_log(TASK_LOGS, t, "task_failed")
    /\ thr' = [thr EXCEPT ![t] = "set_error"]
    /\ UNCHANGED <<TASK_STATUS, files, thr_exc, run_result>>
    /\ ThreadFrame

\* run_task line 37
StatusAfterFailureUnset(t) == TASK_STATUS
StatusAfterFailure(t) == [TASK_STATUS EXCEPT ![t] = Status("error", thr_exc[t])]

RunSetError(t) ==
    /\ thr[t] = "set_error"
    /\ TASK_STATUS' = StatusAfterFailure(t)
    /\ run_result' = [run_result EXCEPT ![t] = "error"]
    /\ thr' = [thr EXCEPT ![t] = "end"]
    /\ UNCHANGED <<TASK_LOGS, files, thr_exc>>
    /\ ThreadFrame

ThreadStep(t) ==
    \/ RunBegin(t) \/ ProcBodyEnd(t) \/ ProcSaveOpen(t)
    \/ ProcSaveClose(t) \/ RunDone(t) \/ RunLogFailure(t) \/ RunSetError(t)

IdlePoll == [pc |-> "idle", task |-> 0, after_done |-> FALSE, after_fail |-> FALSE]

NoResp == [id |-> 0, state |-> "", exists |-> FALSE, after_done |-> FALSE, after_fail |-> FALSE]

\* jsonify(s): the response, with what held when the request came in
Respond(id, state, poll) ==
    /\ status_resp' = [id |-> id, state |-> state, exists |-> Exists(id),
                       after_done |-> poll.after_done, after_fail |-> poll.after_fail]
    /\ said_done' = IF state = "done" THEN said_done \cup {id} ELSE said_done

HandlerFrame == UNCHANGED <<nonAppVars, files, thr, thr_exc, starting, run_result>>

\* status, lines 92-94: s = TASK_STATUS.get(task_id); unknown ids get 404
StatusBegin(p, id) ==
    /\ polls_left > 0
    /\ polls[p].pc = "idle"
    /\ polls_left' = polls_left - 1
    /\ LET poll == [pc |-> "got_s", task |-> id, after_done |-> id \in said_done,
                    after_fail |-> id \in TaskIds /\ run_result[id] = "error"]
       IN IF id \notin DOMAIN TASK_STATUS
          THEN /\ Respond(id, "unknown", poll)
               /\ UNCHANGED polls
          ELSE /\ polls' = [polls EXCEPT ![p] = [poll EXCEPT !.pc = TASK_STATUS[id].state]]
               /\ UNCHANGED <<status_resp, said_done>>
    /\ UNCHANGED <<TASK_LOGS, TASK_STATUS, log_resps, dl_resp>>
    /\ HandlerFrame

\* The handler holds s, read at line 92: its position records the state read.
HoldsS(p) == polls[p].pc \in {"running", "done", "error"}

\* status, lines 97-98 and 102: without the file, s as read at line 92 is the answer
StatusCheck(p) ==
    /\ HoldsS(p)
    /\ IF Exists(polls[p].task)
       THEN /\ polls' = [polls EXCEPT ![p].pc = "write"]
            /\ UNCHANGED <<status_resp, said_done>>
       ELSE /\ polls' = [polls EXCEPT ![p] = IdlePoll]
            /\ Respond(polls[p].task, polls[p].pc, polls[p])
    /\ UNCHANGED <<TASK_LOGS, TASK_STATUS, log_resps, dl_resp, polls_left>>
    /\ HandlerFrame

\* status, line 99
StatusWrite(p) ==
    /\ polls[p].pc = "write"
    /\ TASK_STATUS' = [TASK_STATUS EXCEPT ![polls[p].task] = Status("done", "")]
    /\ polls' = [polls EXCEPT ![p].pc = "reread"]
    /\ UNCHANGED <<TASK_LOGS, status_resp, said_done, log_resps, dl_resp, polls_left>>
    /\ HandlerFrame

\* status, lines 100-102: s = TASK_STATUS[task_id], the answer
StatusReturn(p) ==
    /\ polls[p].pc = "reread"
    /\ Respond(polls[p].task, TASK_STATUS[polls[p].task].state, polls[p])
    /\ polls' = [polls EXCEPT ![p] = IdlePoll]
    /\ UNCHANGED <<TASK_LOGS, TASK_STATUS, log_resps, dl_resp, polls_left>>
    /\ HandlerFrame

\* TASK_LOGS.get(task_id, []) leaves the dictionary alone
LogsAfterGet(id) == TASK_LOGS

NoLogResp == [n |-> 0, logs |-> <<>>, prev |-> <<>>, known |-> FALSE]

\* get_log: the response, the one before it for the same id, and their number
GetLog(id) ==
    /\ polls_left > 0
    /\ polls_left' = polls_left - 1
    /\ log_resps' = [log_resps EXCEPT ![id] =
           [n |-> @.n + 1,
            logs |-> IF id \in DOMAIN TASK_LOGS THEN TASK_LOGS[id] ELSE <<>>,
            prev |-> @.logs,
            known |-> id \in DOMAIN TASK_STATUS]]
    /\ TASK_LOGS' = LogsAfterGet(id)
    /\ UNCHANGED <<TASK_STATUS, polls, status_resp, said_done, dl_resp>>
    /\ HandlerFrame

NoDownload == [id |-> 0, code |-> 0, after_done |-> FALSE]

\* download
Download(id) ==
    /\ polls_left > 0
    /\ polls_left' = polls_left - 1
    /\ dl_resp' = [id |-> id, code |-> IF Exists(id) THEN 200 ELSE 404,
                   after_done |-> id \in said_done]
    /\ UNCHANGED <<TASK_LOGS, TASK_STATUS, polls, status_resp, said_done, log_resps>>
    /\ HandlerFrame

(***************************************************************************)
(* Initial states and specifications.                                      *)
(***************************************************************************)
ParseIdle == raw_text = <<>> /\ parse_pc = "idle" /\ parse_out = Raised("")

LLMIdle ==
    /\ llm_pc = "idle" /\ retries = 0 /\ attempt = 0 /\ last_err = ""
    /\ llm_out = Raised("") /\ requests = 0 /\ llm_trace = <<>>

AppIdle ==
    /\ TASK_LOGS = <<>> /\ TASK_STATUS = <<>>
    /\ files = [t \in TaskIds |-> "absent"]
    /\ thr = [t \in TaskIds |-> "none"]
    /\ thr_exc = [t \in TaskIds |-> ""]
    /\ starting = 0
    /\ polls = [p \in Pollers |-> IdlePoll]
    /\ run_result = [t \in TaskIds |-> ""]
    /\ said_done = {} /\ status_resp = NoResp /\ dl_resp = NoDownload
    /\ log_resps = [id \in AnyId |-> NoLogResp]
    /\ polls_left = 0

ProcIdle ==
    /\ max_sheets = 0 /\ default_retries = 0
    /\ param_file = [ok |-> FALSE, flag |-> 0, rows |-> <<>>]
    /\ report_file = [ok |-> FALSE, sheets |-> <<>>]
    /\ proc_pc = "idle"
    /\ shifou = 0 /\ canshu_list = <<>> /\ numbers_list = <<>> /\ letters_list = <<>>
    /\ sheet_names = <<>>
    /\ idx = 1 /\ all_data = <<>> /\ row_k = 1 /\ hangshu = 2
    /\ ws = NewSheet /\ plog = <<>> /\ pending = "" /\ out_file = AbsentFile
    /\ proc_out = "" /\ written = <<>> /\ hist = <<>> /\ fail_cause = ""
    /\ save_attempts = 0

ParseInit ==
    /\ raw_text \in SeqsUpTo(MaxLen) \cup {NoneText}
    /\ parse_pc = "call"
    /\ parse_out = Raised("")
    /\ has_key = FALSE /\ reply_env = {}
    /\ LLMIdle
    /\ ProcIdle
    /\ AppIdle


ParseNext == ParseCall

SpecParse == ParseInit /\ [][ParseNext]_vars

LLMInit ==
    /\ ParseIdle
    /\ ProcIdle
    /\ AppIdle
    /\ has_key \in BOOLEAN
    /\ reply_env = AllReplies
    /\ retries \in 0..MaxRetries
    /\ llm_pc = "call" /\ attempt = 0 /\ last_err = ""
    /\ llm_out = Raised("") /\ requests = 0 /\ llm_trace = <<>>

LLMNext == LLMEnter \/ LLMAttempt \/ LLMExhausted

SpecLLM == LLMInit /\ [][LLMNext]_vars

(***************************************************************************)
(* process_excel on its own.  The parameter table and the report are the   *)
(* uploaded files; the state is the one after line 166.                    *)
(***************************************************************************)
RECURSIVE TablesUpTo(_, _)
TablesUpTo(rows, n) ==
    IF n = 0 THEN {<<>>}
    ELSE LET prev == TablesUpTo(rows, n - 1)
         IN prev \cup {Append(t, r) : t \in {q \in prev : Len(q) = n - 1}, r \in rows}

CellA5 == <<"A", "5">>
CellC20 == <<"C", "2", "0">>
CellC7 == <<"C", "7">>
CellAB == <<"A", "B">>
CellAbs == <<"$", "b", "$">>
CellA1B2 == <<"A", "1", "B", "2">>

Reports ==
    {[ok |-> FALSE, sheets |-> <<>>],
     [ok |-> TRUE, sheets |-> <<"s1", "s2">>],
     [ok |-> TRUE, sheets |-> <<"s2">>]}

ParamFiles(rows) ==
    {[ok |-> FALSE, flag |-> 0, rows |-> <<>>], [ok |-> TRUE, flag |-> 1, rows |-> <<>>]}
        \cup {[ok |-> TRUE, flag |-> 0, rows |-> t] : t \in TablesUpTo(rows, MaxParamRows)}

ProcStart ==
    /\ ParseIdle
    /\ LLMIdle
    /\ AppIdle
    /\ proc_pc = "read_params"
    /\ shifou = 0 /\ canshu_list = <<>> /\ numbers_list = <<>> /\ letters_list = <<>>
    /\ sheet_names = <<>>
    /\ idx = 1 /\ all_data = <<>> /\ row_k = 1 /\ hangshu = 2
    /\ ws = NewSheet /\ plog = <<>> /\ pending = "" /\ out_file = AbsentFile
    /\ proc_out = "" /\ written = <<>> /\ hist = <<>> /\ fail_cause = ""
    /\ save_attempts = 0

ProcRows == {<<"s1", CellA5, CellC20>>, <<"s2", CellA5, CellC20>>, <<"s1", NaNCell, CellC20>>}

ProcInit ==
    /\ ProcStart
    /\ has_key \in BOOLEAN
    /\ reply_env = ProcReplies
    /\ max_sheets \in {0, 1}
    /\ default_retries \in {0, DEFAULT_RETRIES}
    /\ param_file \in ParamFiles(ProcRows)
    /\ report_file \in Reports

ProcNext ==
    \/ ReadParams \/ OpenReport \/ LoopExit \/ LoopBreak \/ SkipMissing \/ SkipBadRange
    \/ ReadSheet \/ LLMEnter \/ LLMAttempt \/ LLMExhausted \/ AfterLLM \/ WriteRow
    \/ RowsDone \/ Finally

SpecProc == ProcInit /\ [][ProcNext]_vars

(***************************************************************************)
(* process_excel on parameter tables with every kind of range cell.        *)
(***************************************************************************)
StartCells == {CellA5, NaNCell, CellAB, CellA1B2}
EndCells == {CellC20, NaNCell, CellAbs, CellC7}
RangeRows == {<<"s1", s, e>> : s \in StartCells, e \in EndCells}

RangeInit ==
    /\ ProcStart
    /\ has_key = TRUE
    /\ reply_env = RangeReplies
    /\ max_sheets \in {0, 1}
    /\ default_retries \in {0, DEFAULT_RETRIES}
    /\ param_file \in ParamFiles(RangeRows)
    /\ report_file \in Reports

SpecRange == RangeInit /\ [][ProcNext]_vars

(***************************************************************************)
(* The web application: start requests, background threads, and polling.   *)
(***************************************************************************)
AppStart(budget) ==
    /\ ParseIdle
    /\ has_key = FALSE /\ reply_env = {}
    /\ LLMIdle
    /\ ProcIdle
    /\ TASK_LOGS = <<>> /\ TASK_STATUS = <<>>
    /\ files = [t \in TaskIds |-> "absent"]
    /\ thr = [t \in TaskIds |-> "none"]
    /\ thr_exc = [t \in TaskIds |-> ""]
    /\ starting = 0
    /\ polls = [p \in Pollers |-> IdlePoll]
    /\ run_result = [t \in TaskIds |-> ""]
    /\ said_done = {} /\ status_resp = NoResp /\ dl_resp = NoDownload
    /\ log_resps = [id \in AnyId |-> NoLogResp]
    /\ polls_left = budget

Init == AppStart(MaxPolls)

Thread == \E t \in TaskIds : ThreadStep(t)

StatusHandler ==
    \E p \in Pollers :
        \/ \E id \in AnyId : StatusBegin(p, id)
        \/ StatusCheck(p)
        \/ StatusWrite(p)
        \/ StatusReturn(p)

LogHandler == \E id \in AnyId : GetLog(id)

DownloadHandler == \E id \in AnyId : Download(id)

Next ==
    \/ StartRegister \/ StartThread \/ StartSaveFails
    \/ Thread \/ StatusHandler \/ LogHandler \/ DownloadHandler

Spec == Init /\ [][Next]_vars

\* Every started thread keeps being scheduled.
LiveInit == AppStart(MaxLivePolls)

LiveSpec == LiveInit /\ [][Next]_vars /\ \A t \in TaskIds : WF_vars(ThreadStep(t))

(***************************************************************************)
(* Properties.                                                             *)
(***************************************************************************)
IsPrefix(a, b) == Len(a) <= Len(b) /\ SubSeq(b, 1, Len(a)) = a

CountLog(msg) == Cardinality({k \in 1..Len(plog) : plog[k].msg = msg})

CountHist(kind) == Cardinality({k \in 1..Len(hist) : hist[k].kind = kind})

\* The sheet w holds the 12 headers in row 1 and, from row 2 on, the rows of
\* written: each value in its column, the sheet name in the product column.
HoldsHeaderAndRows(w) ==
    /\ \A c \in 1..12 : <<1, c>> \in DOMAIN w /\ w[<<1, c>>] = Str(<<Headers[c]>>)
    /\ \A k \in 1..Len(written) :
        /\ <<k + 1, 10>> \in DOMAIN w
        /\ w[<<k + 1, 10>>] = Str(<<written[k].sheet>>)
        /\ \A c \in 1..Len(written[k].row) :
            c # 10 => <<k + 1, c>> \in DOMAIN w /\ w[<<k + 1, c>>] = written[k].row[c]

\* C1: process_excel runs the save step of its finally block exactly once before
\* it returns or lets an exception out, whichever step of the body failed
\* (parameter table read, report open, sheet read, row writing); unless the save
\* itself fails, the saved workbook is the header row plus every data row
\* appended before the failure.
C1_SaveAlwaysAttempted ==
    /\ proc_pc = "done" => save_attempts = 1
    /\ proc_pc # "done" => save_attempts = 0 /\ out_file.state = "absent"
    /\ (proc_pc = "done" /\ fail_cause # "save") =>
           /\ out_file.state = "complete"
           /\ out_file.ws = ws
           /\ HoldsHeaderAndRows(out_file.ws)
    /\ (proc_pc = "done" /\ proc_out # "returned") =>
           fail_cause \in {"param_read", "report_open", "sheet_read", "row_write", "save"}

C1_Witness ==
    /\ proc_pc = "done" /\ fail_cause = "row_write" /\ proc_out = "ValueError"
    /\ Len(written) >= 1
    /\ out_file.state = "complete"

\* C2: after run_task has ended in its except clause (process_excel raised),
\* every status poll that comes in for the task answers state error.
C2_FailedTaskPollsError == status_resp.after_fail => status_resp.state = "error"

\* C3: _parse_llm_list_of_lists returns a list whose every element is a list, or
\* raises ValueError.
C3_ListOfListsOrValueError ==
    parse_pc = "done" =>
        \/ parse_out.raised = "ValueError"
        \/ parse_out.raised = "" /\ IsListOfLists(parse_out.val)

Failed(k) == llm_trace[k].result.raised # ""

Unparseable(k) ==
    /\ llm_trace[k].outcome.err = ""
    /\ _parse_llm_list_of_lists(llm_trace[k].outcome.content).raised # ""

\* C4: with retries = R, analyze_data_with_llm sends at most R requests; every
\* attempt before the last one sent has failed (no request follows a success);
\* it returns the parsed rows of the first successful attempt; an unparseable
\* reply is a failed attempt, retried unless it was attempt R; when all R >= 1
\* attempts fail it raises the exception of attempt R; with R = 0 it sends no
\* request and raises RuntimeError.
C4_RetryLoop ==
    /\ requests = Len(llm_trace)
    /\ requests <= retries
    /\ \A k \in 1..(Len(llm_trace) - 1) : Failed(k)
    /\ \A k \in 1..Len(llm_trace) :
        Unparseable(k) =>
            /\ Failed(k)
            /\ k < retries => (llm_pc = "loop" \/ Len(llm_trace) > k)
    /\ llm_pc = "loop" => \A k \in 1..Len(llm_trace) : Failed(k)
    /\ llm_pc = "returned" =>
        /\ Len(llm_trace) >= 1
        /\ ~Failed(Len(llm_trace))
        /\ llm_out = _parse_llm_list_of_lists(llm_trace[Len(llm_trace)].outcome.content)
        /\ llm_out.raised = ""
    /\ (llm_pc = "raised" /\ has_key /\ retries >= 1) =>
        /\ Len(llm_trace) = retries
        /\ Failed(retries)
        /\ llm_out.raised = llm_trace[retries].result.raised
    /\ retries = 0 =>
        /\ requests = 0
        /\ llm_pc # "returned"
        /\ llm_pc = "raised" => llm_out.raised = "RuntimeError"

C4_Witness ==
    /\ llm_pc = "returned" /\ retries = 3 /\ Len(llm_trace) = 3
    /\ llm_trace[1].outcome.content = NotAList
    /\ llm_trace[2].outcome.err = "APITimeoutError"
    /\ IsListOfLists(llm_out.val)

LLMFailedAt(k) == hist[k].llm_err # ""

\* The loop gets to parameter row k.
WithinLimit(k) == k <= Len(canshu_list) /\ (max_sheets = 0 \/ k <= max_sheets)

Running(t) == t \in DOMAIN TASK_STATUS /\ TASK_STATUS[t].state = "running"
Settled(t) == t \in DOMAIN TASK_STATUS /\ TASK_STATUS[t].state \in {"done", "error"}

\* C6: every task whose thread start has started leaves state running for done or
\* error (threads scheduled fairly); a task that is no longer running never
\* becomes running again; the state is running when the thread is started.
C6_LeavesRunning ==
    /\ \A t \in TaskIds : (thr[t] # "none") ~> Settled(t)
    /\ [][\A t \in TaskIds : Settled(t) => Settled(t)']_vars
    /\ [][\A t \in TaskIds : (thr[t] = "none" /\ thr'[t] # "none") => Running(t)]_vars

C6_Witness ==
    /\ thr[1] = "end" /\ run_result[1] = "error" /\ TASK_STATUS[1].state = "error"
    /\ thr[2] = "end" /\ run_result[2] = "done" /\ TASK_STATUS[2].state = "done"

\* What simple mode does with parameter row k, from the cells of the table.
StartCell(k) == param_file.rows[k][2]
EndCell(k) == param_file.rows[k][3]
NoDigits(cell) == cell = NaNCell \/ Digits(cell) = <<>>

\* C7: in simple mode a sheet that is read is read with 4 rows skipped, columns
\* letters(S):letters(E) and digits(E) - digits(S) - 4 rows; a sheet whose S or E
\* is empty or has no digits is skipped with a log line and without an LLM
\* call, and the loop goes on to the next parameter row.
C7_SimpleModeRange ==
    (param_file.ok /\ param_file.flag = 0) =>
        /\ \A k \in 1..Len(hist) :
            /\ hist[k].kind \in {"processed", "read_failed"} =>
                /\ hist[k].skiprows = 4
                /\ hist[k].bounded
                /\ hist[k].usecols = Letters(StartCell(k)) \o <<":">> \o Letters(EndCell(k))
                /\ hist[k].nrows = ToInt(Digits(EndCell(k))) - ToInt(Digits(StartCell(k))) - 4
                /\ ~NoDigits(StartCell(k)) /\ ~NoDigits(EndCell(k))
            /\ (hist[k].kind # "missing" /\ (NoDigits(StartCell(k)) \/ NoDigits(EndCell(k)))) =>
                /\ hist[k].kind = "bad_range"
                /\ hist[k].requests = 0 /\ hist[k].rows = 0
                /\ idx > k
                /\ (proc_pc = "done" /\ fail_cause \in {"", "save"} /\ WithinLimit(k + 1)) =>
                       Len(hist) > k
        /\ CountLog("range_failed") = CountHist("bad_range")
        /\ CountLog("call_ai") = CountHist("processed")

C7_Witness ==
    /\ param_file.flag = 0 /\ Len(hist) = 2
    /\ hist[1].kind = "bad_range" /\ StartCell(1) = CellAB
    /\ hist[2].kind = "processed" /\ StartCell(2) = CellA1B2 /\ EndCell(2) = CellC20
    /\ hist[2].nrows = 4 /\ hist[2].usecols = <<"A", "B", ":", "C">>
    /\ hist[2].rows = 2

\* C8: the next-row counter is 2 plus the number of rows written; row 1 holds
\* the 12 headers; the rows are in parameter-list order and, within a sheet, in
\* the order of the reply; column 10 of every data row is the name of its sheet,
\* also for a row of 10 or more values; no row beyond the counter is touched.
C8_RowsContiguous ==
    /\ hangshu = 2 + Len(written)
    /\ HoldsHeaderAndRows(ws)
    /\ \A p \in DOMAIN ws : p[1] <= hangshu
    /\ \A k \in 1..Len(written) :
        /\ written[k].sheet = canshu_list[written[k].i][1]
        /\ k > 1 =>
            \/ written[k - 1].i < written[k].i /\ written[k].k = 1
            \/ written[k - 1].i = written[k].i /\ written[k].k = written[k - 1].k + 1
        /\ k = 1 => written[k].k = 1
        /\ (written[k].i = idx /\ proc_pc = "write") =>
               written[k].row = RowValues(all_data[written[k].k])

C8_Witness ==
    /\ Len(written) = 4
    /\ written[1].sheet = "s2" /\ written[3].sheet = "s1"
    /\ Len(written[4].row) = 11
    /\ ws[<<5, 10>>] = Str(<<"s1">>)
    /\ ws[<<5, 11>>] = Num(<<ONE, ONE>>)

\* C9: a status response of done implies the output file exists; a download
\* that comes in after a done response is answered with the file; a status poll
\* that comes in after a done response for the task answers done.
C9_DoneIsStable ==
    /\ status_resp.state = "done" => status_resp.exists
    /\ dl_resp.after_done => dl_resp.code = 200
    /\ status_resp.after_done => status_resp.state = "done"

\* C10: successive log responses for an id grow by appending; a list holds only
\* lines logged for its id; entries are made by start alone, so a log or status
\* request for an unknown id creates none and is answered with an empty list,
\* respectively unknown.
C10_LogsAppendOnlyIsolated ==
    /\ \A id \in AnyId :
        /\ log_resps[id].n >= 2 => IsPrefix(log_resps[id].prev, log_resps[id].logs)
        /\ \A k \in 1..Len(log_resps[id].logs) : log_resps[id].logs[k].for = id
        /\ (log_resps[id].n >= 1 /\ ~log_resps[id].known) => log_resps[id].logs = <<>>
    /\ \A id \in DOMAIN TASK_LOGS :
        /\ id \in DOMAIN TASK_STATUS
        /\ Len(TASK_LOGS[id]) >= 3
        /\ TASK_LOGS[id][1].msg = "recv_param"
        /\ \A k \in 1..Len(TASK_LOGS[id]) : TASK_LOGS[id][k].for = id
    /\ DOMAIN TASK_STATUS = DOMAIN TASK_LOGS
    /\ 0 \notin DOMAIN TASK_LOGS
    /\ (status_resp.state # "" /\ status_resp.id \notin DOMAIN TASK_STATUS) =>
           status_resp.state = "unknown"

C10_Witness ==
    /\ thr[1] \notin {"none", "end"} /\ thr[2] \notin {"none", "end"}
    /\ log_resps[2].n = 2
    /\ log_resps[2].prev # <<>>
    /\ Len(log_resps[2].prev) < Len(log_resps[2].logs)

====
